---- MODULE Spec2Model ----
(***************************************************************************)
(* A model of analyze_floods.py: a linear script that loads a rainfall     *)
(* spreadsheet, detects its header row and time column, ranks the gauge    *)
(* columns, resamples the chosen gauges to hourly sums and writes tables   *)
(* and charts.  The script is one run: every section of the file is one    *)
(* action, taken in the order of the file (pc is the position in it).      *)
(*                                                                         *)
(* Text is a sequence of one-character strings, so that strip, lower and   *)
(* substring tests are computed.  Rainfall values are whole numbers of     *)
(* inches, which the summary's round(3) leaves as they are; timestamps are *)
(* integers counting minutes from EVENT_START.                             *)
(***************************************************************************)
EXTENDS Integers, Sequences, FiniteSets, TLC

VARIABLES pc, exists, raw, header_row, out, cols, body, time_col, site_cols,
          quality, chosen, hour0, hourly, cum, summary, evt, outdir, files,
          exit_code

vars == <<pc, exists, raw, header_row, out, cols, body, time_col, site_cols,
          quality, chosen, hour0, hourly, cum, summary, evt, outdir, files,
          exit_code>>

(***************************************************************************)
(* Optional values (Python's None) and cells of a table.                   *)
(***************************************************************************)
None == <<>>
Some(x) == <<x>>
IsNone(o) == o = <<>>
The(o) == o[1]

Null == [k |-> "null"]
Str(s) == [k |-> "str", s |-> s]
Num(n) == [k |-> "num", n |-> n]
Ts(t) == [k |-> "ts", t |-> t]
IsNull(c) == c.k = "null"

(***************************************************************************)
(* Text helpers: Python's str.lower, str.strip, in, startswith.            *)
(***************************************************************************)
UpperChars == <<"A","B","C","D","E","F","G","H","I","J","K","L","M",
                "N","O","P","Q","R","S","T","U","V","W","X","Y","Z">>
LowerChars == <<"a","b","c","d","e","f","g","h","i","j","k","l","m",
                "n","o","p","q","r","s","t","u","v","w","x","y","z">>
Whitespace == {" ", "\t", "\n"}

LowerChar(c) ==
    IF \E i \in DOMAIN UpperChars : UpperChars[i] = c
    THEN LowerChars[CHOOSE i \in DOMAIN UpperChars : UpperChars[i] = c]
    ELSE c

lower(s) == [i \in DOMAIN s |-> LowerChar(s[i])]

RECURSIVE lstrip(_)
lstrip(s) ==
    IF s # <<>> /\ Head(s) \in Whitespace THEN lstrip(Tail(s)) ELSE s

RECURSIVE rstrip(_)
rstrip(s) ==
    IF s # <<>> /\ s[Len(s)] \in Whitespace
    THEN rstrip(SubSeq(s, 1, Len(s) - 1))
    ELSE s

strip(s) == rstrip(lstrip(s))

contains(s, sub) ==
    \E i \in 1..(Len(s) - Len(sub) + 1) : SubSeq(s, i, i + Len(sub) - 1) = sub

startswith(s, pre) ==
    Len(s) >= Len(pre) /\ SubSeq(s, 1, Len(pre)) = pre

DigitChars == <<"0","1","2","3","4","5","6","7","8","9">>

RECURSIVE Digits(_)
Digits(n) ==
    IF n < 10 THEN <<DigitChars[n + 1]>>
    ELSE Digits(n \div 10) \o <<DigitChars[(n % 10) + 1]>>

\* str() of a whole number.
NumStr(n) == IF n < 0 THEN <<"-">> \o Digits(0 - n) ELSE Digits(n)

\* str() of a timestamp: digits and punctuation only, as the ISO form
\* "2024-05-15 00:15:00" is (the day and the minute of the day).
TsStr(t) ==
    (IF t < 0 THEN <<"-">> ELSE <<>>)
    \o Digits((IF t < 0 THEN 0 - t ELSE t) \div 1440) \o <<" ">>
    \o Digits((IF t < 0 THEN 0 - t ELSE t) % 1440) \o <<":", "0", "0">>

\* str(cell), as Series.astype(str) and str(c) give it.
PyStr(c) ==
    CASE c.k = "null" -> <<"n","a","n">>
      [] c.k = "str" -> c.s
      [] c.k = "num" -> NumStr(c.n)
      [] c.k = "ts" -> TsStr(c.t)

(***************************************************************************)
(* The literals of the script.                                             *)
(***************************************************************************)
sDataTimeUtc == <<"d","a","t","a","_","t","i","m","e","_","u","t","c">>
sDataTime == <<"d","a","t","a","_","t","i","m","e">>
sDateSlashTime == <<"d","a","t","e","/","t","i","m","e">>
sDate == <<"d","a","t","e">>
sTime == <<"t","i","m","e">>
sUnnamed == <<"u","n","n","a","m","e","d">>
sUnnamedColon == <<"U","n","n","a","m","e","d",":"," ">>
sDateTimeLabel == <<"D","a","t","e","T","i","m","e">>

HEADER_SCAN_ROWS == 50
HEADER_FALLBACK_ROW == 3
TOP_N == 2
ROLL_SHORT == 6
ROLL_LONG == 24
WEIGHT_COMPLETENESS == 7
WEIGHT_STD == 3
MINUTES_PER_HOUR == 60
\* EVENT_START is minute 0; EVENT_END, "2024-05-20 23:59", is the last minute
\* of the sixth day.
EVENT_START == 0
EVENT_END == 8639
ENABLE_EVENT_WINDOW == TRUE

Min(a, b) == IF a < b THEN a ELSE b

(***************************************************************************)
(* Header row detection (rows are 0-based in the script: row i is          *)
(* raw[i + 1]).                                                            *)
(***************************************************************************)
max_scan == Min(HEADER_SCAN_ROWS, Len(raw))

\* line 42-43: some cell of the row, as text, stripped and lower-cased, is
\* 'data_time_utc' or contains 'data_time'.
RowHasTimeCell(row) ==
    \E j \in DOMAIN row :
        LET cell == lower(strip(PyStr(row[j])))
        IN  cell = sDataTimeUtc \/ contains(cell, sDataTime)

\* line 49-53: the first non-null cell of the row contains 'data_time' or
\* 'date/time'.
RowFirstValIsTime(row) ==
    /\ \E j \in DOMAIN row : ~IsNull(row[j])
    /\ LET j == CHOOSE j \in DOMAIN row :
                    /\ ~IsNull(row[j])
                    /\ \A i \in 1..(j - 1) : IsNull(row[i])
           first_val == lower(strip(PyStr(row[j])))
       IN  contains(first_val, sDataTime) \/ contains(first_val, sDateSlashTime)

\* The smallest member of a set of integers, or None.
Least(S) ==
    IF S = {} THEN None ELSE Some(CHOOSE i \in S : \A h \in S : i <= h)

\* The first scan without its break: the last matching row.
ScanCellsHitNoBreak ==
    LET hits == {i \in 0..(max_scan - 1) : RowHasTimeCell(raw[i + 1])}
    IN  IF hits = {} THEN None ELSE Some(CHOOSE i \in hits : \A h \in hits : h <= i)

\* for i in range(max_scan): ... break, for each of the two scans.
ScanCellsHit ==
    Least({i \in 0..(max_scan - 1) : RowHasTimeCell(raw[i + 1])})

ScanFirstValHit ==
    Least({i \in 0..(max_scan - 1) : RowFirstValIsTime(raw[i + 1])})

(***************************************************************************)
(* err(): prints and calls sys.exit(1), so the script goes to its exit and *)
(* never to the statement after the call.                                   *)
(***************************************************************************)
sys_exit_returns(fallthrough) == fallthrough

sys_exit(fallthrough) == "exit"

ERROR(msg) == <<"ERROR", msg>>
WARN(msg) == <<"WARN", msg>>

\* The process status once the script is at position p.
StatusAt(p) ==
    CASE p = "exit" -> Some(1)
      [] p = "crash" -> Some(1)
      [] p = "done" -> Some(0)
      [] OTHER -> None

(***************************************************************************)
(* Re-reading with the detected header, and cleaning the columns.          *)
(***************************************************************************)
\* The label pandas gives column j (1-based here, 0-based in the label) of the
\* header row: the cell, or 'Unnamed: j' for an empty cell.
HeaderLabel(row, j) ==
    IF IsNull(row[j]) THEN sUnnamedColon \o Digits(j - 1) ELSE PyStr(row[j])

\* pandas renames a repeated label 'x' to 'x.1', 'x.2', ...
MangledLabel(row, j) ==
    LET base == HeaderLabel(row, j)
        before == Cardinality({i \in 1..(j - 1) : HeaderLabel(row, i) = base})
    IN  IF before = 0 THEN base ELSE base \o <<".">> \o Digits(before)

\* The members of a set of integers, ascending.
RECURSIVE Ascending(_)
Ascending(S) ==
    IF S = {} THEN <<>>
    ELSE LET m == CHOOSE i \in S : \A h \in S : i <= h
         IN  <<m>> \o Ascending(S \ {m})

IsPlaceholder(name) == startswith(lower(name), sUnnamed)

\* line 64: the header row becomes the labels, the rows below it the body.
ReadLabels(h) == [j \in DOMAIN raw[h + 1] |-> MangledLabel(raw[h + 1], j)]
ReadBody(h) == SubSeq(raw, h + 2, Len(raw))

\* line 69: dropna(how='all').
DropEmptyRows(rows) ==
    LET keep(r) == \E j \in DOMAIN r : ~IsNull(r[j]) IN SelectSeq(rows, keep)

\* line 72-74: the indices of the columns kept, by their stripped label.
KeptColumns(labels) ==
    Ascending({j \in DOMAIN labels : ~IsPlaceholder(strip(labels[j]))})

(***************************************************************************)
(* Time column identification, line 77-104.                                *)
(***************************************************************************)
IsCanonicalTime(c) == lower(strip(c)) = sDataTimeUtc

\* The second loop without its 'date' and 'time' clause.
IsNamedTimeNoDateAndTime(c) ==
    LET cl == lower(strip(c))
    IN  contains(cl, sDataTime) \/ contains(cl, sDateSlashTime)

IsNamedTime(c) ==
    LET cl == lower(strip(c))
    IN  \/ contains(cl, sDataTime)
        \/ contains(cl, sDateSlashTime)
        \/ (contains(cl, sDate) /\ contains(cl, sTime))

IsLooseTime(c) ==
    LET cl == lower(c) IN contains(cl, sDate) \/ contains(cl, sTime)

\* for c in df.columns: if ...: time_col = c; break, for a set of matching
\* column positions.
FirstCol(cs, hits) ==
    IF hits = {} THEN None ELSE Some(cs[The(Least(hits))])

\* The three loops of line 78-95, each run only if the one before found nothing.
FindTimeCol(cs) ==
    LET a == FirstCol(cs, {j \in DOMAIN cs : IsCanonicalTime(cs[j])})
        b == FirstCol(cs, {j \in DOMAIN cs : IsNamedTime(cs[j])})
        d == FirstCol(cs, {j \in DOMAIN cs : IsLooseTime(cs[j])})
    IN  IF ~IsNone(a) THEN a ELSE IF ~IsNone(b) THEN b ELSE d

ColIndex(cs, name) == CHOOSE j \in DOMAIN cs : cs[j] = name

HasDuplicates(cs) == \E i, j \in DOMAIN cs : i # j /\ cs[i] = cs[j]

(***************************************************************************)
(* Parsing the time column and coercing the site columns.                  *)
(***************************************************************************)
\* Minutes from EVENT_START (2024-05-15) back to 1970-01-01, where
\* pd.to_datetime puts a bare number (it reads it as nanoseconds).
UNIX_EPOCH == 0 - (19858 * 1440)

\* pd.to_datetime(errors="coerce") of one cell: the texts of this model are
\* not dates, so they become NaT.
to_datetime(c) ==
    CASE c.k = "ts" -> c
      [] c.k = "num" -> Ts(UNIX_EPOCH)
      [] OTHER -> Null

IsDigitText(s) ==
    s # <<>> /\ \A i \in DOMAIN s : \E d \in DOMAIN DigitChars : DigitChars[d] = s[i]

RECURSIVE ParseDigits(_)
ParseDigits(s) ==
    IF s = <<>> THEN 0
    ELSE 10 * ParseDigits(SubSeq(s, 1, Len(s) - 1))
         + (CHOOSE d \in 0..9 : DigitChars[d + 1] = s[Len(s)])

\* pd.to_numeric(errors="coerce") of one cell: a number stays, a text of
\* digits is parsed, anything else becomes NaN.
to_numeric(c) ==
    CASE c.k = "num" -> c
      [] c.k = "str" ->
           IF IsDigitText(strip(c.s)) THEN Num(ParseDigits(strip(c.s))) ELSE Null
      [] OTHER -> Null

\* line 107-108: the rows with a parseable time, the time cell parsed.
ParseTimeRows(rows, t) ==
    LET parsed == [i \in DOMAIN rows |->
                      [rows[i] EXCEPT ![t] = to_datetime(rows[i][t])]]
        keep(r) == ~IsNull(r[t])
    IN  SelectSeq(parsed, keep)

\* line 111: the columns other than the time column and the placeholders.
SiteCandidates(cs, tcol) ==
    LET idx == Ascending({j \in DOMAIN cs :
                             cs[j] # tcol /\ ~IsPlaceholder(cs[j])})
    IN  [i \in DOMAIN idx |-> cs[idx[i]]]

\* line 114-115: every candidate column coerced to numbers.
CoerceRows(rows, cs, cand) ==
    LET isCand(j) == \E i \in DOMAIN cand : cand[i] = cs[j]
    IN  [i \in DOMAIN rows |->
            [j \in DOMAIN rows[i] |->
                IF isCand(j) THEN to_numeric(rows[i][j]) ELSE rows[i][j]]]

\* line 118 kept every column, also one with no value.
NonEmptySitesKeepAll(rows, cs, cand) == cand

\* line 118: the candidates with at least one non-null value.
NonEmptySites(rows, cs, cand) ==
    LET keep(c) == \E i \in DOMAIN rows : ~IsNull(rows[i][ColIndex(cs, c)])
    IN  SelectSeq(cand, keep)

\* line 123: sort_values(by=time_col).  Rows of equal time keep their order
\* here; nothing below depends on the order among them.
SortByTime(rows, t) ==
    LET before(i, j) == \/ rows[i][t].t < rows[j][t].t
                        \/ (rows[i][t].t = rows[j][t].t /\ i < j)
        pos(i) == 1 + Cardinality({j \in DOMAIN rows : before(j, i)})
    IN  [p \in DOMAIN rows |-> rows[CHOOSE i \in DOMAIN rows : pos(i) = p]]

(***************************************************************************)
(* The quality ranking, line 133-155.  A quality row keeps the exact       *)
(* counts and sums of its column: completeness is nonnull / rows, std is   *)
(* the sample standard deviation sqrt(VarNum / VarDen), NaN for a single   *)
(* value, and score is 0.7 * completeness + 0.3 * std.  The comparisons    *)
(* below are exact (the script's are in floating point).                   *)
(***************************************************************************)
RECURSIVE SumSeq(_)
SumSeq(s) == IF s = <<>> THEN 0 ELSE Head(s) + SumSeq(Tail(s))

\* The non-null values of column c, in row order.
ColumnValues(rows, cs, c) ==
    LET j == ColIndex(cs, c)
        cells == [i \in DOMAIN rows |-> rows[i][j]]
        keep(x) == ~IsNull(x)
        vals == SelectSeq(cells, keep)
    IN  [i \in DOMAIN vals |-> vals[i].n]

QualityRow(rows, cs, c) ==
    LET v == ColumnValues(rows, cs, c)
    IN  [site |-> c,
         nonnull |-> Len(v),
         rows |-> Len(rows),
         sum |-> SumSeq(v),
         sumsq |-> SumSeq([i \in DOMAIN v |-> v[i] * v[i]])]

\* s.std() is NaN for exactly one value (line 137 guards only the empty case).
StdIsNaN(q) == q.nonnull = 1
VarNum(q) == IF q.nonnull < 2 THEN 0 ELSE q.nonnull * q.sumsq - q.sum * q.sum
VarDen(q) == IF q.nonnull < 2 THEN 1 ELSE q.nonnull * (q.nonnull - 1)

RECURSIVE GCD(_, _)
GCD(a, b) == IF b = 0 THEN a ELSE GCD(b, a % b)
LCM(a, b) == (a \div GCD(a, b)) * b

StdGT(a, b) == VarNum(a) * VarDen(b) > VarNum(b) * VarDen(a)
StdEQ(a, b) == VarNum(a) * VarDen(b) = VarNum(b) * VarDen(a)

\* score(a) > score(b) for two defined scores over the same number of rows n:
\* 10 n score = 7 nonnull + sqrt(9 n^2 Var), compared by squaring twice.
ScoreGT(a, b) ==
    LET d == WEIGHT_COMPLETENESS * (a.nonnull - b.nonnull)
        L == LCM(VarDen(a), VarDen(b))
        w == WEIGHT_STD * WEIGHT_STD * a.rows * a.rows
        pa == w * VarNum(a) * (L \div VarDen(a))
        pb == w * VarNum(b) * (L \div VarDen(b))
    IN  CASE d >= 0 /\ StdGT(a, b) -> TRUE
          [] d > 0 /\ StdEQ(a, b) -> TRUE
          [] d <= 0 /\ ~StdGT(a, b) -> FALSE
          [] d > 0 /\ StdGT(b, a) ->
               LET r == pb - pa - d * d * L
               IN  r < 0 \/ 4 * d * d * pa * L > r * r
          [] OTHER ->
               LET r == pa - pb - d * d * L
               IN  r > 0 /\ r * r > 4 * d * d * pb * L

ScoreEQ(a, b) == ~ScoreGT(a, b) /\ ~ScoreGT(b, a)

\* a sorts strictly before b under sort_values(by=["score", "completeness",
\* "std"], ascending=False): NaN keys go last, whatever the direction.
RanksAboveAscending(a, b) ==
    CASE StdIsNaN(a) /\ StdIsNaN(b) -> a.nonnull < b.nonnull
      [] StdIsNaN(a) -> FALSE
      [] StdIsNaN(b) -> TRUE
      [] OTHER -> \/ ScoreGT(b, a)
                  \/ /\ ScoreEQ(a, b)
                     /\ \/ a.nonnull < b.nonnull
                        \/ (a.nonnull = b.nonnull /\ StdGT(b, a))

RanksAbove(a, b) ==
    CASE StdIsNaN(a) /\ StdIsNaN(b) -> a.nonnull > b.nonnull
      [] StdIsNaN(a) -> FALSE
      [] StdIsNaN(b) -> TRUE
      [] OTHER -> \/ ScoreGT(a, b)
                  \/ /\ ScoreEQ(a, b)
                     /\ \/ a.nonnull > b.nonnull
                        \/ (a.nonnull = b.nonnull /\ StdGT(a, b))

\* line 141-143: the rows sorted; rows of equal keys keep their order.
SortQuality(q) ==
    LET before(i, j) == \/ RanksAbove(q[i], q[j])
                        \/ (~RanksAbove(q[j], q[i]) /\ i < j)
        pos(i) == 1 + Cardinality({j \in DOMAIN q : before(j, i)})
    IN  [p \in DOMAIN q |-> q[CHOOSE i \in DOMAIN q : pos(i) = p]]

\* line 146: quality["site"].head(TOP_N).tolist().
HeadSites(q, n) == [i \in 1..Min(n, Len(q)) |-> q[i].site]

(***************************************************************************)
(* Resampling and summaries, line 158-169.  A table over the hourly index  *)
(* is a sequence of buckets, bucket b standing for the clock hour          *)
(* hour0 + b - 1; each bucket is a sequence with one cell per chosen site. *)
(***************************************************************************)
HourOf(t) == t \div MINUTES_PER_HOUR

\* The number of hourly buckets: every clock hour from the first row's to the
\* last row's.
BucketCount(rows, t) ==
    IF rows = <<>> THEN 0
    ELSE HourOf(rows[Len(rows)][t].t) - HourOf(rows[1][t].t) + 1

\* sum(min_count=0) of one bucket: an empty sum is 0.
BucketSumZero(rows, t, j, hour) ==
    LET cells == [i \in DOMAIN rows |-> rows[i][j]]
        inHour == {i \in DOMAIN rows :
                      HourOf(rows[i][t].t) = hour /\ ~IsNull(rows[i][j])}
        picked == Ascending(inHour)
    IN  Num(SumSeq([i \in DOMAIN picked |-> cells[picked[i]].n]))

\* resample('h').sum(min_count=1) of one bucket of one column: the sum of the
\* non-null values of the rows in that clock hour, NaN if there is none.
BucketSum(rows, t, j, hour) ==
    LET cells == [i \in DOMAIN rows |-> rows[i][j]]
        inHour == {i \in DOMAIN rows :
                      HourOf(rows[i][t].t) = hour /\ ~IsNull(rows[i][j])}
        picked == Ascending(inHour)
    IN  IF inHour = {} THEN Null
        ELSE Num(SumSeq([i \in DOMAIN picked |-> cells[picked[i]].n]))

Resample(rows, cs, t, sites) ==
    [b \in 1..BucketCount(rows, t) |->
        [s \in DOMAIN sites |->
            BucketSum(rows, t, ColIndex(cs, sites[s]),
                      HourOf(rows[1][t].t) + b - 1)]]

\* One column of a table over the hourly index.
Column(table, s) == [b \in DOMAIN table |-> table[b][s]]

\* The sum of the non-null cells of col[lo..hi].
RECURSIVE SumCells(_, _, _)
SumCells(col, lo, hi) ==
    IF lo > hi THEN 0
    ELSE (IF IsNull(col[hi]) THEN 0 ELSE col[hi].n) + SumCells(col, lo, hi - 1)

\* cumsum restarted after every NaN.
CumSumRestart(col) ==
    [b \in DOMAIN col |->
        IF IsNull(col[b]) THEN Null
        ELSE LET gaps == {g \in 1..b : IsNull(col[g])}
                 from == IF gaps = {} THEN 1
                         ELSE 1 + CHOOSE g \in gaps : \A h \in gaps : h <= g
             IN  Num(SumCells(col, from, b))]

\* cumsum() of one column: NaN stays NaN and is skipped by the running sum.
CumSum(col) ==
    [b \in DOMAIN col |->
        IF IsNull(col[b]) THEN Null ELSE Num(SumCells(col, 1, b))]

\* rolling(w, min_periods=1).sum().
RollingSumPartial(col, w) ==
    [b \in DOMAIN col |->
        IF \A i \in (IF b > w THEN b - w + 1 ELSE 1)..b : IsNull(col[i]) THEN Null
        ELSE Num(SumCells(col, IF b > w THEN b - w + 1 ELSE 1, b))]

\* rolling(w).sum() of one column: min_periods is w, so a position has a value
\* only if it and the w - 1 positions before it all hold a value.
RollingSum(col, w) ==
    [b \in DOMAIN col |->
        IF b >= w /\ \A i \in (b - w + 1)..b : ~IsNull(col[i])
        THEN Num(SumCells(col, b - w + 1, b))
        ELSE Null]

\* max() of one column, NaN skipped; NaN if nothing is left.
MaxCell(col) ==
    LET vals == {col[b].n : b \in {i \in DOMAIN col : ~IsNull(col[i])}}
    IN  IF vals = {} THEN Null ELSE Num(CHOOSE v \in vals : \A u \in vals : u <= v)

SummaryRow(col) ==
    [total_inches |-> Num(SumCells(col, 1, Len(col))),
     max_hour |-> MaxCell(col),
     max_6h |-> MaxCell(RollingSum(col, ROLL_SHORT)),
     max_24h |-> MaxCell(RollingSum(col, ROLL_LONG))]

(***************************************************************************)
(* The event window, line 188-236.                                         *)
(***************************************************************************)
\* The label, in minutes, of bucket b of the hourly index.
BucketLabel(h0, b) == (h0 + b - 1) * MINUTES_PER_HOUR

\* .loc[] ignoring the bounds.
EventSliceAll(table, h0) == [b \in DOMAIN table |-> b]

\* hourly.loc[EVENT_START:EVENT_END]: the buckets labelled within the bounds,
\* both included.
EventSlice(table, h0) ==
    Ascending({b \in DOMAIN table :
                  /\ BucketLabel(h0, b) >= EVENT_START
                  /\ BucketLabel(h0, b) <= EVENT_END})

CsvTables == {"summary_selected_gauges.csv", "gauge_quality.csv",
              "hourly_selected_gauges.csv", "cumulative_selected_gauges.csv"}
EventFiles == {"event_summary.csv", "hourly_event.png", "cumulative_event.png"}
PeriodFigures == {"hourly.png", "cumulative.png"}

(***************************************************************************)
(* The script, section by section.                                         *)
(***************************************************************************)
\* line 32-36: the input file must exist; raw is its sheet, read with no header.
CheckFile ==
    /\ pc = "start"
    /\ pc' = IF exists THEN "scan_cells" ELSE sys_exit("scan_cells")
    /\ out' = IF exists THEN out ELSE Append(out, ERROR("file_not_found"))
    /\ exit_code' = StatusAt(pc')
    /\ UNCHANGED <<exists, raw, header_row, cols, body, time_col, site_cols,
                   quality, chosen, hour0, hourly, cum, summary, evt, outdir,
                   files>>

\* line 39-45: the first scan, over every cell of each row.
ScanCells ==
    /\ pc = "scan_cells"
    /\ header_row' = ScanCellsHit
    /\ pc' = "scan_first"
    /\ UNCHANGED <<exists, raw, out, cols, body, time_col, site_cols, quality,
                   chosen, hour0, hourly, cum, summary, evt, outdir, files,
                   exit_code>>

\* line 47-55: the second scan, over the first non-null cell of each row.
ScanFirstVal ==
    /\ pc = "scan_first"
    /\ header_row' = IF IsNone(header_row) THEN ScanFirstValHit ELSE header_row
    /\ pc' = "fallback"
    /\ UNCHANGED <<exists, raw, out, cols, body, time_col, site_cols, quality,
                   chosen, hour0, hourly, cum, summary, evt, outdir, files,
                   exit_code>>

\* line 57-61: the fixed fallback row, with a warning.
FallbackHeader ==
    /\ pc = "fallback"
    /\ header_row' = IF IsNone(header_row) THEN Some(HEADER_FALLBACK_ROW)
                     ELSE header_row
    /\ out' = IF IsNone(header_row) THEN Append(out, WARN("no_header")) ELSE out
    /\ pc' = "reread"
    /\ UNCHANGED <<exists, raw, cols, body, time_col, site_cols, quality,
                   chosen, hour0, hourly, cum, summary, evt, outdir, files,
                   exit_code>>

\* line 64-75: re-read with the detected header (pandas raises if the sheet has
\* no such row), drop the empty rows, strip the labels, drop the placeholders.
ReRead ==
    /\ pc = "reread"
    /\ LET h == The(header_row) IN
       IF h >= Len(raw)
       THEN /\ pc' = "crash"
            /\ UNCHANGED <<cols, body>>
       ELSE LET labels == ReadLabels(h)
                kept == KeptColumns(labels)
                rows == DropEmptyRows(ReadBody(h))
            IN  /\ cols' = [i \in DOMAIN kept |-> strip(labels[kept[i]])]
                /\ body' = [r \in DOMAIN rows |->
                               [i \in DOMAIN kept |-> rows[r][kept[i]]]]
                /\ pc' = "time"
    /\ exit_code' = StatusAt(pc')
    /\ UNCHANGED <<exists, raw, header_row, out, time_col, site_cols, quality,
                   chosen, hour0, hourly, cum, summary, evt, outdir, files>>

\* line 77-104: the time column; df.columns[0] raises on a table left with no
\* column.
IdentifyTime ==
    /\ pc = "time"
    /\ LET found == FindTimeCol(cols) IN
       IF IsNone(found) /\ cols = <<>>
       THEN /\ pc' = "crash"
            /\ UNCHANGED <<time_col, cols, out>>
       ELSE LET c == IF IsNone(found) THEN cols[1] ELSE The(found)
            IN  /\ out' = IF IsNone(found)
                          THEN Append(out, WARN("no_time_column")) ELSE out
                /\ time_col' = IF IsPlaceholder(c) THEN Some(sDateTimeLabel)
                               ELSE Some(c)
                /\ cols' = IF IsPlaceholder(c)
                           THEN [cols EXCEPT ![ColIndex(cols, c)] = sDateTimeLabel]
                           ELSE cols
                /\ pc' = "parse"
    /\ exit_code' = StatusAt(pc')
    /\ UNCHANGED <<exists, raw, header_row, body, site_cols, quality, chosen,
                   hour0, hourly, cum, summary, evt, outdir, files>>

\* line 106-108: parse the time column, drop the rows without a time.  With a
\* label held twice df[c] is a table and the conversions raise.
ParseTime ==
    /\ pc = "parse"
    /\ IF HasDuplicates(cols)
       THEN /\ pc' = "crash"
            /\ UNCHANGED body
       ELSE /\ body' = ParseTimeRows(body, ColIndex(cols, The(time_col)))
            /\ pc' = "sites"
    /\ exit_code' = StatusAt(pc')
    /\ UNCHANGED <<exists, raw, header_row, out, cols, time_col, site_cols,
                   quality, chosen, hour0, hourly, cum, summary, evt, outdir,
                   files>>

\* line 110-123: the site columns, coerced; fatal if none is left; sort by time.
SiteColumns ==
    /\ pc = "sites"
    /\ LET t == ColIndex(cols, The(time_col))
           cand == SiteCandidates(cols, The(time_col))
           coerced == CoerceRows(body, cols, cand)
           kept == NonEmptySites(coerced, cols, cand)
       IN  /\ site_cols' = kept
           /\ body' = SortByTime(coerced, t)
           /\ out' = IF cand = <<>> THEN Append(out, ERROR("no_site_columns"))
                     ELSE IF kept = <<>> THEN Append(out, ERROR("all_sites_empty"))
                     ELSE out
           /\ pc' = IF kept = <<>> THEN sys_exit("rank") ELSE "rank"
    /\ exit_code' = StatusAt(pc')
    /\ UNCHANGED <<exists, raw, header_row, cols, time_col, quality, chosen,
                   hour0, hourly, cum, summary, evt, outdir, files>>

\* line 133-155: the quality ranking and the chosen gauges.
RankGauges ==
    /\ pc = "rank"
    /\ LET rows == [i \in DOMAIN site_cols |-> QualityRow(body, cols, site_cols[i])]
           ranked == SortQuality(rows)
           head == HeadSites(ranked, TOP_N)
           keep(c) == ~IsPlaceholder(c)
           final == SelectSeq(head, keep)
       IN  /\ quality' = ranked
           /\ chosen' = final
           /\ out' = IF head = <<>> THEN Append(out, ERROR("empty_ranking"))
                     ELSE IF final = <<>> THEN Append(out, ERROR("only_unnamed"))
                     ELSE out
           /\ pc' = IF final = <<>> THEN sys_exit("aggregate") ELSE "aggregate"
    /\ exit_code' = StatusAt(pc')
    /\ UNCHANGED <<exists, raw, header_row, cols, body, time_col, site_cols,
                   hour0, hourly, cum, summary, evt, outdir, files>>

\* line 158-169: the hourly table, the cumulative table and the summary.
Aggregate ==
    /\ pc = "aggregate"
    /\ LET t == ColIndex(cols, The(time_col))
           h == Resample(body, cols, t, chosen)
       IN  /\ hour0' = IF body = <<>> THEN 0 ELSE HourOf(body[1][t].t)
           /\ hourly' = h
           /\ cum' = [b \in DOMAIN h |->
                         [s \in DOMAIN chosen |-> CumSum(Column(h, s))[b]]]
           /\ summary' = [s \in DOMAIN chosen |-> SummaryRow(Column(h, s))]
    /\ pc' = "write"
    /\ UNCHANGED <<exists, raw, header_row, out, cols, body, time_col,
                   site_cols, quality, chosen, evt, outdir, files, exit_code>>

\* line 171-185: the output directory and the four tables.
WriteTables ==
    /\ pc = "write"
    /\ outdir' = TRUE
    /\ files' = files \cup CsvTables
    /\ pc' = "event"
    /\ UNCHANGED <<exists, raw, header_row, out, cols, body, time_col,
                   site_cols, quality, chosen, hour0, hourly, cum, summary, evt,
                   exit_code>>

\* line 188-236: the event window.  The bounds are valid timestamps, so the
\* slice does not raise.  evt.idxmax() of a column with no value in the window
\* returns NaN or raises, by the version of pandas.
EventWindow ==
    /\ pc = "event"
    /\ \E idxmax_raises \in BOOLEAN :
          LET slice == IF ENABLE_EVENT_WINDOW THEN EventSlice(hourly, hour0)
                       ELSE <<>>
              allNa == \E s \in DOMAIN chosen :
                           \A i \in DOMAIN slice : IsNull(hourly[slice[i]][s])
          IN  /\ evt' = slice
              /\ IF slice = <<>>
                 THEN /\ out' = IF ENABLE_EVENT_WINDOW
                                THEN Append(out, WARN("no_event_data")) ELSE out
                      /\ files' = files
                      /\ pc' = "figures"
                 ELSE IF allNa /\ idxmax_raises
                 THEN /\ pc' = "crash"
                      /\ UNCHANGED <<out, files>>
                 ELSE /\ files' = files \cup EventFiles
                      /\ pc' = "figures"
                      /\ out' = out
    /\ exit_code' = StatusAt(pc')
    /\ UNCHANGED <<exists, raw, header_row, cols, body, time_col, site_cols,
                   quality, chosen, hour0, hourly, cum, summary, outdir>>

\* line 240-273: the two full-period charts.
Figures ==
    /\ pc = "figures"
    /\ files' = files \cup PeriodFigures
    /\ pc' = "done"
    /\ exit_code' = StatusAt(pc')
    /\ UNCHANGED <<exists, raw, header_row, out, cols, body, time_col,
                   site_cols, quality, chosen, hour0, hourly, cum, summary, evt,
                   outdir>>

Next ==
    \/ CheckFile
    \/ ScanCells
    \/ ScanFirstVal
    \/ FallbackHeader
    \/ ReRead
    \/ IdentifyTime
    \/ ParseTime
    \/ SiteColumns
    \/ RankGauges
    \/ Aggregate
    \/ WriteTables
    \/ EventWindow
    \/ Figures

(***************************************************************************)
(* The sheets the runs are started on.                                     *)
(***************************************************************************)
tCanonical == <<"d","a","t","a","_","t","i","m","e","_","u","t","c">>
tCanonicalLoud == <<" ","D","a","t","a","_","T","i","m","e","_","U","T","C"," ">>
tLocal == <<"d","a","t","a","_","t","i","m","e","_","l","o","c","a","l">>
tDateSlash == <<"D","a","t","e","/","T","i","m","e">>
tDateSpace == <<"D","a","t","e"," ","T","i","m","e">>
tDateOnly == <<"D","a","t","e">>
tTimeOnly == <<"T","i","m","e">>
tSite == <<"S","i","t","e"," ","1">>
tRain == <<"R","a","i","n">>
tReport == <<"R","e","p","o","r","t">>
tBad == <<"b","a","d">>
tX == <<"x">>
tTwo == <<"2">>
tA == <<"A">>
tB == <<"B">>
tC == <<"C">>

\* The state at the start of the script, on sheet r.
Start(r, e) ==
    /\ pc = "start"
    /\ exists = e
    /\ raw = r
    /\ header_row = None
    /\ out = <<>>
    /\ cols = <<>>
    /\ body = <<>>
    /\ time_col = None
    /\ site_cols = <<>>
    /\ quality = <<>>
    /\ chosen = <<>>
    /\ hour0 = 0
    /\ hourly = <<>>
    /\ cum = <<>>
    /\ summary = <<>>
    /\ evt = <<>>
    /\ outdir = FALSE
    /\ files = {}
    /\ exit_code = None

\* All sequences over S of length n.
SeqsOf(S, n) == [1..n -> S]

\* A well-formed sheet: the header in row 0, two hourly rows.
GoodSheet ==
    << <<Str(tCanonical), Str(tA)>>, <<Ts(0), Num(1)>>, <<Ts(60), Num(2)>> >>

\* Sheets for header detection: some empty rows, then one or two rows of label
\* cells.  The numbers of empty rows are around 0 and around HEADER_SCAN_ROWS.
MaxBlankRows == 51
HeaderCells == {Null, Str(tCanonicalLoud), Str(tDateSlash), Str(tSite)}
HeaderRows == SeqsOf(HeaderCells, 2)
HeaderPrefixes == (0..4) \cup ((HEADER_SCAN_ROWS - 3)..MaxBlankRows)
HeaderSheets ==
    {[i \in 1..b |-> <<Null, Null>>] \o tail :
        b \in HeaderPrefixes,
        tail \in SeqsOf(HeaderRows, 1) \cup SeqsOf(HeaderRows, 2)}

\* Sheets for the time column: three title rows, the labels in row 3, one row
\* of text below.  Labels are distinct, as pandas makes them.
NameCells == {Null, Str(tCanonicalLoud), Str(tLocal), Str(tDateSlash),
              Str(tDateSpace), Str(tDateOnly), Str(tTimeOnly), Str(tSite),
              Str(tRain)}
NameRows ==
    {r \in SeqsOf(NameCells, 3) :
        \A i, j \in 1..3 : (i # j /\ ~IsNull(r[i])) => r[i] # r[j]}
TitleRow == <<Str(tReport), Null, Null>>
TimeSheets ==
    {<<TitleRow, TitleRow, TitleRow, r, <<Str(tX), Str(tX), Str(tX)>> >> :
        r \in NameRows}

\* Sheets for the ranking: a time column and three gauges over MaxRankRows
\* quarter-hourly rows; each gauge's cells are drawn in a fixed order of kinds
\* (the ranking reads a column through its counts and sums only), and the
\* first row's time may be unreadable.
MaxRankRows == 3
OrderedCells(kinds) ==
    {[i \in 1..MaxRankRows |-> kinds[p[i]]] :
        p \in {q \in SeqsOf(DOMAIN kinds, MaxRankRows) :
                  \A i \in 1..(MaxRankRows - 1) : q[i] <= q[i + 1]}}
GaugeA == OrderedCells(<<Num(3), Str(tTwo), Str(tX), Null>>)
GaugeB == OrderedCells(<<Num(2), Num(0), Null>>)
GaugeC == OrderedCells(<<Num(1), Num(0), Null>>)
RankSheets ==
    {<< <<Str(tCanonical), Str(tA), Str(tB), Str(tC)>> >>
     \o [i \in 1..MaxRankRows |->
            <<IF i = 1 THEN t1 ELSE Ts(15 * (i - 1)), a[i], b[i], c[i]>>] :
        t1 \in {Ts(0), Str(tBad)}, a \in GaugeA, b \in GaugeB, c \in GaugeC}
    \cup {<< <<Str(tCanonical)>>, <<Ts(0)>> >>,
          << <<Str(tCanonical), Null, Str(tA)>>, <<Ts(0), Num(1), Num(2)>> >>}

\* Sheets for the hourly tables: up to MaxHourlyRows rows in any order, two in
\* the same clock hour or hours apart, inside the event window or after it.
MaxHourlyRows == 2
HourlyRowSet(shift) ==
    {<<Ts(t + shift), a, b>> :
        t \in {0, 15, 180}, a \in {Null, Num(0 - 1), Num(2)}, b \in {Null, Num(1)}}
HourlySheets ==
    UNION {{<< <<Str(tCanonical), Str(tA), Str(tB)>> >> \o rows :
               rows \in UNION {SeqsOf(HourlyRowSet(shift), n) : n \in 1..MaxHourlyRows}} :
           shift \in {0, 9000}}

\* Sheets of one gauge sampled every 15 or 60 minutes, MaxSamples times at
\* most, with or without two hours missing after the fourth sample, before,
\* across, inside or after the event window.
MaxSamples == 30
SampleValue(i, pattern) ==
    CASE pattern = 1 -> Num(1)
      [] pattern = 2 -> Num(i % 5)
      [] pattern = 3 -> IF i % 7 = 3 THEN Null ELSE Num(2)
SeriesSheets ==
    {<< <<Str(tCanonical), Str(tA)>> >>
     \o [i \in 1..m |->
            <<Ts(shift + step * (i - 1) + (IF i > 4 THEN gap ELSE 0)),
              SampleValue(i, pattern)>>] :
        m \in 1..MaxSamples, step \in {15, 60}, pattern \in 1..3,
        shift \in {0 - 6000, 0 - 120, 0, 9000}, gap \in {0, 120}}

InitHeader == \E r \in HeaderSheets \cup {GoodSheet} : Start(r, TRUE)
InitTime == \E r \in TimeSheets \cup {GoodSheet} : Start(r, TRUE)
InitRank == \/ \E r \in RankSheets \cup {GoodSheet} : Start(r, TRUE)
            \/ Start(<<>>, FALSE)
InitHourly == \E r \in HourlySheets \cup SeriesSheets : Start(r, TRUE)

SpecHeader == InitHeader /\ [][Next]_vars
SpecTime == InitTime /\ [][Next]_vars
SpecRank == InitRank /\ [][Next]_vars
SpecHourly == InitHourly /\ [][Next]_vars

(***************************************************************************)
(* Properties.  Each is stated from the sheet the run was started on (raw) *)
(* and the labels the re-read produced, not from the operators the actions *)
(* use, so that it can fail if the script computed something else.         *)
(***************************************************************************)
Logged(level) == {out[i][2] : i \in {n \in DOMAIN out : out[n][1] = level}}
BeforeHeader == {"start", "scan_cells", "scan_first", "fallback"}

\* The text of a cell as the scans see it.
CellText(c) == lower(strip(PyStr(c)))

\* Row i (0-based) of the sheet matches by a full scan of its cells.
C3_CellMatch(i) ==
    \E j \in DOMAIN raw[i + 1] :
        \/ CellText(raw[i + 1][j]) = sDataTimeUtc
        \/ contains(CellText(raw[i + 1][j]), sDataTime)

\* Row i (0-based) matches by its first non-null cell.
C3_FirstValMatch(i) ==
    \E j \in DOMAIN raw[i + 1] :
        /\ ~IsNull(raw[i + 1][j])
        /\ \A n \in 1..(j - 1) : IsNull(raw[i + 1][n])
        /\ \/ contains(CellText(raw[i + 1][j]), sDataTime)
           \/ contains(CellText(raw[i + 1][j]), sDateSlashTime)

C3_Scanned == {i \in 0..(Len(raw) - 1) : i < HEADER_SCAN_ROWS}
C3_ByCell == {i \in C3_Scanned : C3_CellMatch(i)}
C3_ByFirstVal == {i \in C3_Scanned : C3_FirstValMatch(i)}
C3_IsLeast(i, S) == i \in S /\ \A n \in S : i <= n

\* C3: once header detection is over, the header row is the smallest of the
\* first min(50, row count) rows with a cell that is the time-field label or
\* contains 'data_time'; failing any, the smallest such row whose first
\* non-null cell contains 'data_time' or 'date/time'; failing that too, row 3.
\* The warning is logged in the last case and in no other.
C3_HeaderRowDetection ==
    (exists /\ pc \notin BeforeHeader) =>
        /\ ~IsNone(header_row)
        /\ C3_ByCell # {} => C3_IsLeast(The(header_row), C3_ByCell)
        /\ (C3_ByCell = {} /\ C3_ByFirstVal # {}) =>
               C3_IsLeast(The(header_row), C3_ByFirstVal)
        /\ (C3_ByCell = {} /\ C3_ByFirstVal = {}) =>
               The(header_row) = HEADER_FALLBACK_ROW
        /\ ("no_header" \in Logged("WARN")) <=>
               (C3_ByCell = {} /\ C3_ByFirstVal = {})

\* A run whose header came from the second scan, below a row that the second
\* scan passed over, with a first-scan match nowhere in the scanned rows.
C3_Witness ==
    /\ pc = "reread"
    /\ C3_ByCell = {}
    /\ C3_ByFirstVal # {}
    /\ The(header_row) > 0
    /\ C3_IsLeast(The(header_row), C3_ByFirstVal)
    /\ Len(raw) > HEADER_SCAN_ROWS

\* C10 (as claimed): the header row handed to the re-read is a row of the
\* sheet, for every non-empty sheet.
C10_HeaderRowInSheet ==
    (pc = "reread" /\ Len(raw) > 0) =>
        (The(header_row) >= 0 /\ The(header_row) < Len(raw))

\* The rules of the time column, on a cleaned label.
C2_RuleA(c) == lower(c) = sDataTimeUtc
C2_RuleB(c) ==
    contains(lower(c), sDataTime) \/ contains(lower(c), sDateSlashTime)
C2_RuleC(c) == contains(lower(c), sDate) /\ contains(lower(c), sTime)
C2_RuleD(c) == contains(lower(c), sDate) \/ contains(lower(c), sTime)

\* The best rule a label matches, (a) to (e) as five ranks.
C2_Rank(c) ==
    CASE C2_RuleA(c) -> 1
      [] C2_RuleB(c) -> 2
      [] C2_RuleC(c) -> 3
      [] C2_RuleD(c) -> 4
      [] OTHER -> 5

\* The same with (b) and (c) as one rank.
C2_Tier(c) ==
    CASE C2_RuleA(c) -> 1
      [] C2_RuleB(c) \/ C2_RuleC(c) -> 2
      [] C2_RuleD(c) -> 3
      [] OTHER -> 4

\* C2 (as claimed): the time column is chosen by the strict priority (a), (b),
\* (c), (d), (e): no column matches a rule of higher priority than the chosen
\* one does, and the first column is taken, with a warning, only under (e).
C2_StrictPriority ==
    ~IsNone(time_col) =>
        /\ \A j \in DOMAIN cols : C2_Rank(The(time_col)) <= C2_Rank(cols[j])
        /\ C2_Rank(The(time_col)) = 5 => The(time_col) = cols[1]
        /\ ("no_time_column" \in Logged("WARN")) <=> C2_Rank(The(time_col)) = 5

\* C2 (amended): the priority is (a), then (b) or (c) alike, then (d), then
\* (e): the chosen column is the leftmost column of the best of these tiers
\* that any column of a non-empty table reaches, and the warning is logged
\* exactly when no column matches any rule and the first column is taken.
C2_TieredPriority ==
    ~IsNone(time_col) =>
        /\ \E j \in DOMAIN cols :
              /\ cols[j] = The(time_col)
              /\ \A i \in DOMAIN cols :
                    C2_Tier(cols[j]) <= C2_Tier(cols[i])
              /\ \A i \in 1..(j - 1) : C2_Tier(cols[j]) < C2_Tier(cols[i])
        /\ ("no_time_column" \in Logged("WARN")) <=> C2_Tier(The(time_col)) = 4

\* A run that chose a column matching only (c) although a column further right
\* matches (b).
C2_Witness ==
    /\ pc = "parse"
    /\ ~IsNone(time_col)
    /\ C2_Rank(The(time_col)) = 3
    /\ \E j \in DOMAIN cols : C2_Rank(cols[j]) = 2

\* C1: a run that has called err() is at its exit with status 1, has created
\* no output directory and written no file, and takes no further step; and
\* each fatal condition (no input file, no site column left, no gauge chosen)
\* has sent the run there by the time the script is past its check.
C1_FatalWritesNothing ==
    /\ Logged("ERROR") # {} =>
          /\ pc = "exit"
          /\ exit_code = Some(1)
          /\ ~outdir
          /\ files = {}
          /\ ~ENABLED Next
    /\ (outdir \/ files # {}) =>
          (exists /\ site_cols # <<>> /\ chosen # <<>> /\ Logged("ERROR") = {})
    /\ (~exists /\ pc # "start") => "file_not_found" \in Logged("ERROR")
    /\ (site_cols = <<>> /\ pc \in {"rank", "aggregate", "write", "event",
                                    "figures", "done"}) => FALSE
    /\ (chosen = <<>> /\ pc \in {"aggregate", "write", "event", "figures",
                                 "done"}) => FALSE
    /\ pc = "exit" => Logged("ERROR") # {}

\* A run ended by err() after the coercion left every site column empty.
C1_Witness ==
    /\ pc = "exit"
    /\ exit_code = Some(1)
    /\ "all_sites_empty" \in Logged("ERROR")
    /\ body # <<>>

\* The sheet's header row and the rows below it (positions in raw).
HeaderCellsOfRun == raw[The(header_row) + 1]
DataRowsOfRun == (The(header_row) + 2)..Len(raw)

\* The columns of the sheet labelled c once stripped.
C4_Labelled(c) ==
    {j \in DOMAIN HeaderCellsOfRun :
        /\ ~IsNull(HeaderCellsOfRun[j])
        /\ strip(PyStr(HeaderCellsOfRun[j])) = c}

\* The rows below the header whose time cell is a time (a bare number is one).
C4_TimedRows ==
    {r \in DataRowsOfRun :
        \A j \in C4_Labelled(The(time_col)) : raw[r][j].k \in {"ts", "num"}}

C4_IsNumber(c) ==
    \/ c.k = "num"
    \/ /\ c.k = "str"
       /\ strip(c.s) # <<>>
       /\ \A i \in DOMAIN strip(c.s) :
             \E d \in DOMAIN DigitChars : DigitChars[d] = strip(c.s)[i]

\* The timed rows holding a number in the column labelled c.
C4_ValueRows(c) ==
    {r \in C4_TimedRows : \A j \in C4_Labelled(c) : C4_IsNumber(raw[r][j])}

\* The labels that can be site columns: not the time column, not placeholders.
C4_SiteLabels ==
    {strip(PyStr(HeaderCellsOfRun[j])) :
        j \in {i \in DOMAIN HeaderCellsOfRun : ~IsNull(HeaderCellsOfRun[i])}}
    \ ({The(time_col)}
       \cup {strip(PyStr(HeaderCellsOfRun[j])) :
               j \in {i \in DOMAIN HeaderCellsOfRun :
                         /\ ~IsNull(HeaderCellsOfRun[i])
                         /\ startswith(lower(strip(PyStr(HeaderCellsOfRun[i]))),
                                       sUnnamed)}})

\* C4: every column of the quality ranking is a site label of the sheet (not
\* the time column, not a placeholder) with at least one number in a timed
\* row; its completeness is the count of those numbers over the count of
\* timed rows, so within [0, 1]; and a run with no such column is at its
\* fatal exit with no ranking.
C4_RankedColumns ==
    /\ \A i \in DOMAIN quality :
          /\ quality[i].site \in C4_SiteLabels
          /\ quality[i].rows = Cardinality(C4_TimedRows)
          /\ quality[i].nonnull = Cardinality(C4_ValueRows(quality[i].site))
          /\ quality[i].nonnull >= 1
          /\ quality[i].nonnull <= quality[i].rows
    /\ (exists /\ pc \in {"rank", "aggregate", "write", "event", "figures",
                          "done", "exit"}) =>
          IF \A c \in C4_SiteLabels : C4_ValueRows(c) = {}
          THEN pc = "exit" /\ quality = <<>>
          ELSE pc # "exit"
    /\ pc \in {"aggregate", "write", "event", "figures", "done"} =>
          {quality[i].site : i \in DOMAIN quality}
              = {c \in C4_SiteLabels : C4_ValueRows(c) # {}}

\* A ranking over a sheet that lost a row to an unreadable time and a cell to
\* the coercion, with a column that is neither full nor empty.
C4_Witness ==
    /\ pc = "aggregate"
    /\ Cardinality(C4_TimedRows) < Cardinality(DataRowsOfRun)
    /\ \E i \in DOMAIN quality :
          /\ quality[i].nonnull < quality[i].rows
          /\ \E r \in C4_TimedRows : \E j \in C4_Labelled(quality[i].site) :
                raw[r][j].k = "str"
    /\ \E c \in C4_SiteLabels : C4_ValueRows(c) = {}

\* a is strictly above b in the order of the ranking: by score, then by
\* completeness, then by std (a std that does not exist counting as 0).
C5_Above(a, b) ==
    \/ ScoreGT(a, b)
    \/ /\ ~ScoreGT(b, a)
       /\ \/ a.nonnull * b.rows > b.nonnull * a.rows
          \/ /\ a.nonnull * b.rows = b.nonnull * a.rows
             /\ VarNum(a) * VarDen(b) > VarNum(b) * VarDen(a)

\* C5: the ranking holds every retained site column once, in descending order
\* of (score, completeness, std), and the chosen gauges are its first
\* min(TOP_N, length) columns: no column left out is strictly above a chosen
\* one.
C5_RankingOrder ==
    pc \in {"aggregate", "write", "event", "figures", "done"} =>
        /\ Len(quality) = Len(site_cols)
        /\ {quality[i].site : i \in DOMAIN quality}
               = {site_cols[i] : i \in DOMAIN site_cols}
        /\ \A i, j \in DOMAIN quality : i < j => ~C5_Above(quality[j], quality[i])
        /\ Len(chosen) = Min(TOP_N, Len(quality))
        /\ \A i \in DOMAIN chosen : chosen[i] = quality[i].site
        /\ \A i, j \in DOMAIN quality :
              (i <= Len(chosen) /\ j > Len(chosen)) =>
                  ~C5_Above(quality[j], quality[i])

\* A ranking of three columns, strictly ordered, that is not the order of the
\* sheet, the last one left out.
C5_Witness ==
    /\ pc = "aggregate"
    /\ Len(quality) = 3
    /\ Len(chosen) = TOP_N
    /\ C5_Above(quality[1], quality[2])
    /\ C5_Above(quality[2], quality[3])
    /\ quality[1].site # site_cols[1]
    /\ quality[1].nonnull < quality[2].nonnull

\* The time of a timed row of the sheet, in minutes.
TimeOfRow(r) ==
    LET c == raw[r][CHOOSE j \in DOMAIN HeaderCellsOfRun :
                        j \in C4_Labelled(The(time_col))]
    IN  IF c.k = "ts" THEN c.t ELSE UNIX_EPOCH

\* The number a timed row holds in the column labelled c.
ValueOfRow(r, c) ==
    LET x == raw[r][CHOOSE j \in DOMAIN HeaderCellsOfRun : j \in C4_Labelled(c)]
    IN  IF x.k = "num" THEN x.n ELSE ParseDigits(strip(x.s))

RECURSIVE SumOfRows(_, _)
SumOfRows(R, c) ==
    IF R = {} THEN 0
    ELSE LET r == CHOOSE x \in R : TRUE
         IN  ValueOfRow(r, c) + SumOfRows(R \ {r}, c)

\* Minute t falls in clock hour h.
C6_InHour(t, h) ==
    MINUTES_PER_HOUR * h <= t /\ t < MINUTES_PER_HOUR * (h + 1)

\* The timed rows of clock hour h with a number in the column labelled c.
C6_Contributing(c, h) ==
    {r \in C4_ValueRows(c) : C6_InHour(TimeOfRow(r), h)}

Aggregated == pc \in {"write", "event", "figures", "done"}

\* C6: the hourly table has one bucket for every clock hour from the first
\* timed row's to the last's; for every chosen site, a bucket with rows of
\* that hour holding a number is the sum of those numbers, and a bucket with
\* no such row is null, not zero.
C6_HourlySums ==
    Aggregated =>
        /\ \E r \in C4_TimedRows :
              /\ \A x \in C4_TimedRows : TimeOfRow(r) <= TimeOfRow(x)
              /\ C6_InHour(TimeOfRow(r), hour0)
        /\ \E r \in C4_TimedRows :
              /\ \A x \in C4_TimedRows : TimeOfRow(x) <= TimeOfRow(r)
              /\ C6_InHour(TimeOfRow(r), hour0 + Len(hourly) - 1)
        /\ \A b \in DOMAIN hourly : \A s \in DOMAIN chosen :
              LET rows == C6_Contributing(chosen[s], hour0 + b - 1)
              IN  hourly[b][s] = IF rows = {} THEN Null
                                 ELSE Num(SumOfRows(rows, chosen[s]))

\* An hourly table with a bucket that sums four samples of 1 to 4 and a bucket
\* of an hour with no row at all.
C6_Witness ==
    /\ pc = "write"
    /\ \E b \in DOMAIN hourly :
          /\ Cardinality(C6_Contributing(chosen[1], hour0 + b - 1)) = 4
          /\ \A r \in C6_Contributing(chosen[1], hour0 + b - 1) :
                ValueOfRow(r, chosen[1]) = 1
          /\ hourly[b][1] = Num(4)
    /\ \E b \in DOMAIN hourly :
          /\ \A r \in C4_TimedRows : ~C6_InHour(TimeOfRow(r), hour0 + b - 1)
          /\ IsNull(hourly[b][1])

\* The sum of the values of the first b hourly buckets of site s.
RECURSIVE C7_RunningSum(_, _)
C7_RunningSum(s, b) ==
    IF b = 0 THEN 0
    ELSE C7_RunningSum(s, b - 1)
         + (IF IsNull(hourly[b][s]) THEN 0 ELSE hourly[b][s].n)

\* C7: for every chosen site the cumulative table holds, at every bucket with
\* an hourly value, the sum of the hourly values up to that bucket; and when
\* no hourly value is negative, its values never decrease over time, also
\* from before a run of null buckets to after it.
C7_CumulativeRunningSum ==
    Aggregated =>
        /\ Len(cum) = Len(hourly)
        /\ \A b \in DOMAIN hourly : \A s \in DOMAIN chosen :
              cum[b][s] = IF IsNull(hourly[b][s]) THEN Null
                          ELSE Num(C7_RunningSum(s, b))
        /\ \A s \in DOMAIN chosen :
              (\A b \in DOMAIN hourly :
                   ~IsNull(hourly[b][s]) => hourly[b][s].n >= 0)
              => \A i, j \in DOMAIN cum :
                     (i < j /\ ~IsNull(cum[i][s]) /\ ~IsNull(cum[j][s]))
                     => cum[i][s].n <= cum[j][s].n

\* A cumulative series of non-negative values that grows across null buckets.
C7_Witness ==
    /\ pc = "write"
    /\ \A b \in DOMAIN hourly : ~IsNull(hourly[b][1]) => hourly[b][1].n >= 0
    /\ \E i, k, j \in DOMAIN cum :
          /\ i < k /\ k < j
          /\ IsNull(hourly[k][1])
          /\ ~IsNull(cum[i][1]) /\ ~IsNull(cum[j][1])
          /\ cum[i][1].n > 0
          /\ cum[j][1].n > cum[i][1].n

\* The positions of site s's hourly column that end a full window of w
\* buckets, each holding a value.
C8_FullWindows(s, w) ==
    {b \in DOMAIN hourly :
        /\ b >= w
        /\ \A i \in (b - w + 1)..b : ~IsNull(hourly[i][s])}

\* The sum of the w buckets of site s ending at position b.
C8_WindowSum(s, w, b) == C7_RunningSum(s, b) - C7_RunningSum(s, b - w)

C8_MaxIs(cell, s, w) ==
    IF C8_FullWindows(s, w) = {} THEN IsNull(cell)
    ELSE /\ ~IsNull(cell)
         /\ \E b \in C8_FullWindows(s, w) : cell.n = C8_WindowSum(s, w, b)
         /\ \A b \in C8_FullWindows(s, w) : cell.n >= C8_WindowSum(s, w, b)

C9_WindowOutsideData ==
    \/ \A r \in C4_TimedRows : TimeOfRow(r) < EVENT_START
    \/ \A r \in C4_TimedRows : TimeOfRow(r) > EVENT_END

====
